---- MODULE Spec2Model ----
(***************************************************************************)
(* list_pool<Value, Index>: a pool of singly linked lists stored in one    *)
(* std::vector<Node>.  Nodes are addressed by 1-based indices, 0 is the    *)
(* empty list / end of list / empty free chain.                            *)
(***************************************************************************)
EXTENDS Naturals, Integers, Sequences, FiniteSets, TLC

\* ------------------------------------------------------------------ bounds
\* the store never grows beyond MaxNodes nodes in the model
MaxNodes == 3

\* the values the caller inserts
Values == {10, 20}
\* the caller keeps two lists
Lists == {1, 2}
\* handles the caller may pass: 0, every index of a full store and one beyond
Handles == 0..(MaxNodes + 1)

\* ------------------------------------------------------------ state
VARIABLES
    pool,            \* std::vector<Node> pool: sequence of [value, next]
    free_node_list,  \* Index free_node_list
    heads,           \* the caller's list heads (one handle per list)
    it,              \* Iter::current of the caller's cursor
    last,            \* the last call: operation, arguments, result, exception
    run,             \* the series of pushes that built a list from empty
    freed            \* slots released by the last free_list, not yet reused

vars == <<pool, free_node_list, heads, it, last, run, freed>>

\* ------------------------------------------------------------ results
NoError == "none"
InvalidHandle == "InvalidHandle"     \* std::invalid_argument
NoRet == -1                          \* the call threw: it returned nothing
Hang == -2                           \* get_tail never leaves its loop

Node(value, next) == [value |-> value, next |-> next]

\* the sentinel
end == 0
new_list == end
is_empty(head) == end = head
size(p) == Len(p)

\* TRUE when check_index1 throws
check_index1(p, index) == index > size(p)

\* check_index2 with the upper bound off by one: size() itself is rejected
check_index2_off_by_one(p, index) == is_empty(index) \/ index >= size(p)

\* TRUE when check_index2 throws
check_index2(p, index) == is_empty(index) \/ check_index1(p, index)

\* node(index) is pool[index - 1] of the vector: inside the store or not
InStore(p, index) == index \in 1..size(p)

\* the outcome of a call: the store and the free chain after it, what it
\* returned, what it threw, whether it indexed the vector out of bounds
Outcome(p, f, r, e, o) ==
    [pool |-> p, fnl |-> f, ret |-> r, err |-> e, oob |-> o]

\* get_tail: follow next until a node whose next is the sentinel.  A chain of
\* in-store nodes that has not ended after size(p) steps is a cycle.
RECURSIVE get_tail_walk(_, _, _)
get_tail_walk(p, index, fuel) ==
    IF fuel = 0 THEN Hang
    ELSE LET next == p[index].next
         IN  IF is_empty(next) THEN index
             ELSE get_tail_walk(p, next, fuel - 1)

get_tail(p, index) == get_tail_walk(p, index, size(p))

\* get_tail(index) for any index.  node(index) of an index outside the store
\* reads beyond the vector: the value read is arbitrary, so the walk may stop
\* at any index outside the store, continue into any node of the store, or
\* not stop at all.
get_tail_any(p, index) ==
    IF InStore(p, index)
    THEN {[tail |-> get_tail(p, index), oob |-> FALSE]}
    ELSE {[tail |-> t, oob |-> TRUE] :
            t \in ((size(p) + 1)..(MaxNodes + 1))
                  \cup {get_tail(p, g) : g \in 1..size(p)}
                  \cup {Hang}}

\* ------------------------------------------------------------ accessors
value(p, f, index) ==
    IF check_index2(p, index) THEN Outcome(p, f, NoRet, InvalidHandle, FALSE)
    ELSE Outcome(p, f, p[index].value, NoError, FALSE)

next(p, f, index) ==
    IF check_index2(p, index) THEN Outcome(p, f, NoRet, InvalidHandle, FALSE)
    ELSE Outcome(p, f, p[index].next, NoError, FALSE)

\* value(index) = v: the reference value() returns is assigned
set_value(p, f, index, v) ==
    IF check_index2(p, index) THEN Outcome(p, f, NoRet, InvalidHandle, FALSE)
    ELSE Outcome([p EXCEPT ![index].value = v], f, v, NoError, FALSE)

\* next(index) = n: the reference next() returns is assigned
set_next(p, f, index, n) ==
    IF check_index2(p, index) THEN Outcome(p, f, NoRet, InvalidHandle, FALSE)
    ELSE Outcome([p EXCEPT ![index].next = n], f, n, NoError, FALSE)

\* ------------------------------------------------------------ operations
\* fpush_front that never looks at the free chain: it always appends
fpush_front_grows(p, f, v, head) ==
    IF check_index1(p, head) THEN Outcome(p, f, NoRet, InvalidHandle, FALSE)
    ELSE Outcome(Append(p, Node(v, head)), f, size(p) + 1, NoError, FALSE)

\* fpush_front whose recycling branch forgets node.next = head
fpush_front_keeps_next(p, f, v, head) ==
    IF check_index1(p, head) THEN Outcome(p, f, NoRet, InvalidHandle, FALSE)
    ELSE IF is_empty(f)
    THEN Outcome(Append(p, Node(v, head)), f, size(p) + 1, NoError, FALSE)
    ELSE Outcome([p EXCEPT ![f].value = v], p[f].next, f, NoError, FALSE)

\* fpush_front whose growing branch builds the node with next = end()
fpush_front_unlinked(p, f, v, head) ==
    IF check_index1(p, head) THEN Outcome(p, f, NoRet, InvalidHandle, FALSE)
    ELSE IF is_empty(f)
    THEN Outcome(Append(p, Node(v, end)), f, size(p) + 1, NoError, FALSE)
    ELSE Outcome([p EXCEPT ![f] = Node(v, head)], p[f].next, f,
                 NoError, FALSE)

\* fpush_front that returns the new node's position in the vector, from 0
fpush_front_zero_based(p, f, v, head) ==
    IF check_index1(p, head) THEN Outcome(p, f, NoRet, InvalidHandle, FALSE)
    ELSE IF is_empty(f)
    THEN Outcome(Append(p, Node(v, head)), f, size(p), NoError, FALSE)
    ELSE LET newhead == f
         IN  Outcome([p EXCEPT ![newhead] = Node(v, head)],
                     p[newhead].next, newhead, NoError, FALSE)

fpush_front(p, f, v, head) ==
    IF check_index1(p, head) THEN Outcome(p, f, NoRet, InvalidHandle, FALSE)
    ELSE IF is_empty(f)
    THEN Outcome(Append(p, Node(v, head)), f, size(p) + 1, NoError, FALSE)
    ELSE LET newhead == f
         IN  Outcome([p EXCEPT ![newhead] = Node(v, head)],
                     p[newhead].next, newhead, NoError, FALSE)

\* fpush_back that links the new node behind head instead of behind the tail
fpush_back_at_head(p, f, v, head, t) ==
    IF t.tail = Hang THEN Outcome(p, f, Hang, NoError, t.oob)
    ELSE IF is_empty(f)
    THEN LET grown == Append(p, Node(v, end))
         IN  IF check_index2(grown, head)
             THEN Outcome(grown, f, NoRet, InvalidHandle, t.oob)
             ELSE Outcome([grown EXCEPT ![head].next = size(grown)],
                          f, head, NoError, t.oob)
    ELSE IF check_index2(p, head)
         THEN Outcome(p, f, NoRet, InvalidHandle, t.oob)
         ELSE LET linked == [p EXCEPT ![head].next = f]
              IN  Outcome([linked EXCEPT ![f] = Node(v, end)],
                          linked[f].next, head, NoError, t.oob)

\* fpush_back that forgets node.next = end on the recycled node
fpush_back_at_keeps_next(p, f, v, head, t) ==
    IF t.tail = Hang THEN Outcome(p, f, Hang, NoError, t.oob)
    ELSE IF is_empty(f)
    THEN LET grown == Append(p, Node(v, end))
         IN  IF check_index2(grown, t.tail)
             THEN Outcome(grown, f, NoRet, InvalidHandle, t.oob)
             ELSE Outcome([grown EXCEPT ![t.tail].next = size(grown)],
                          f, head, NoError, t.oob)
    ELSE IF check_index2(p, t.tail)
         THEN Outcome(p, f, NoRet, InvalidHandle, t.oob)
         ELSE LET linked == [p EXCEPT ![t.tail].next = f]
              IN  Outcome([linked EXCEPT ![f].value = v],
                          linked[f].next, head, NoError, t.oob)

\* fpush_back that links the grown store's size() + 1 after the tail
fpush_back_at_off_by_one(p, f, v, head, t) ==
    IF t.tail = Hang THEN Outcome(p, f, Hang, NoError, t.oob)
    ELSE IF is_empty(f)
    THEN LET grown == Append(p, Node(v, end))
         IN  IF check_index2(grown, t.tail)
             THEN Outcome(grown, f, NoRet, InvalidHandle, t.oob)
             ELSE Outcome([grown EXCEPT ![t.tail].next = size(grown) + 1],
                          f, head, NoError, t.oob)
    ELSE IF check_index2(p, t.tail)
         THEN Outcome(p, f, NoRet, InvalidHandle, t.oob)
         ELSE LET linked == [p EXCEPT ![t.tail].next = f]
              IN  Outcome([linked EXCEPT ![f] = Node(v, end)],
                          linked[f].next, head, NoError, t.oob)

\* the part of fpush_back after get_tail returned t
fpush_back_at(p, f, v, head, t) ==
    IF t.tail = Hang THEN Outcome(p, f, Hang, NoError, t.oob)
    ELSE IF is_empty(f)
    THEN LET grown == Append(p, Node(v, end))
         IN  IF check_index2(grown, t.tail)
             THEN Outcome(grown, f, NoRet, InvalidHandle, t.oob)
             ELSE Outcome([grown EXCEPT ![t.tail].next = size(grown)],
                          f, head, NoError, t.oob)
    ELSE IF check_index2(p, t.tail)
         THEN Outcome(p, f, NoRet, InvalidHandle, t.oob)
         ELSE LET linked == [p EXCEPT ![t.tail].next = f]
              IN  Outcome([linked EXCEPT ![f] = Node(v, end)],
                          linked[f].next, head, NoError, t.oob)

\* the set of outcomes of push_back(v, head)
fpush_back(p, f, v, head) ==
    IF is_empty(head) THEN {fpush_front(p, f, v, head)}
    ELSE {fpush_back_at(p, f, v, head, t) : t \in get_tail_any(p, head)}

\* free that forgets node.next = free_node_list
free_keeps_link(p, f, head) ==
    IF is_empty(head) THEN Outcome(p, f, head, NoError, FALSE)
    ELSE IF check_index1(p, head)
    THEN Outcome(p, f, NoRet, InvalidHandle, FALSE)
    ELSE Outcome(p, head, p[head].next, NoError, FALSE)

\* free that returns end() for a head out of range instead of throwing
free_silent(p, f, head) ==
    IF is_empty(head) THEN Outcome(p, f, head, NoError, FALSE)
    ELSE IF check_index1(p, head)
    THEN Outcome(p, f, end, NoError, FALSE)
    ELSE Outcome([p EXCEPT ![head].next = f], head, p[head].next,
                 NoError, FALSE)

\* free that ends the free chain at the freed node
free_drops_chain(p, f, head) ==
    IF is_empty(head) THEN Outcome(p, f, head, NoError, FALSE)
    ELSE IF check_index1(p, head)
    THEN Outcome(p, f, NoRet, InvalidHandle, FALSE)
    ELSE Outcome([p EXCEPT ![head].next = end], head, p[head].next,
                 NoError, FALSE)

\* free that takes the sentinel for an invalid head (check_index2)
free_rejects_empty(p, f, head) ==
    IF check_index2(p, head)
    THEN Outcome(p, f, NoRet, InvalidHandle, FALSE)
    ELSE Outcome([p EXCEPT ![head].next = f], head, p[head].next,
                 NoError, FALSE)

\* free that destroys the value of the node it releases
free_destroys_value(p, f, head) ==
    IF check_index1(p, head)
    THEN Outcome(p, f, NoRet, InvalidHandle, FALSE)
    ELSE IF is_empty(head) THEN Outcome(p, f, head, NoError, FALSE)
    ELSE Outcome([p EXCEPT ![head] = Node(0, f)], head, p[head].next,
                 NoError, FALSE)

\* free that links the released node to itself, not to the free chain
free_self_linked(p, f, head) ==
    IF check_index1(p, head)
    THEN Outcome(p, f, NoRet, InvalidHandle, FALSE)
    ELSE IF is_empty(head) THEN Outcome(p, f, head, NoError, FALSE)
    ELSE Outcome([p EXCEPT ![head].next = head], head, p[head].next,
                 NoError, FALSE)

\* free that does not make the released node the head of the free chain
free_leaks(p, f, head) ==
    IF check_index1(p, head)
    THEN Outcome(p, f, NoRet, InvalidHandle, FALSE)
    ELSE IF is_empty(head) THEN Outcome(p, f, head, NoError, FALSE)
    ELSE Outcome([p EXCEPT ![head].next = f], f, p[head].next,
                 NoError, FALSE)

\* free that leaves alone a node which is already the head of the free chain
free_guarded(p, f, head) ==
    IF check_index1(p, head)
    THEN Outcome(p, f, NoRet, InvalidHandle, FALSE)
    ELSE IF is_empty(head) THEN Outcome(p, f, head, NoError, FALSE)
    ELSE IF head = f THEN Outcome(p, f, end, NoError, FALSE)
    ELSE Outcome([p EXCEPT ![head].next = f], head, p[head].next,
                 NoError, FALSE)

free(p, f, head) ==
    IF is_empty(head) THEN Outcome(p, f, head, NoError, FALSE)
    ELSE IF check_index1(p, head)
    THEN Outcome(p, f, NoRet, InvalidHandle, FALSE)
    ELSE Outcome([p EXCEPT ![head].next = f], head, p[head].next,
                 NoError, FALSE)

\* free_list that links the head, not the tail, to the free chain
free_list_head_only(p, f, head) ==
    IF is_empty(head) THEN Outcome(p, f, head, NoError, FALSE)
    ELSE IF check_index1(p, head)
    THEN Outcome(p, f, NoRet, InvalidHandle, FALSE)
    ELSE Outcome([p EXCEPT ![head].next = f], head, new_list,
                 NoError, FALSE)

free_list(p, f, head) ==
    IF is_empty(head) THEN Outcome(p, f, head, NoError, FALSE)
    ELSE IF check_index1(p, head)
    THEN Outcome(p, f, NoRet, InvalidHandle, FALSE)
    ELSE LET tail == get_tail(p, head)
         IN  IF tail = Hang THEN Outcome(p, f, Hang, NoError, FALSE)
             ELSE Outcome([p EXCEPT ![tail].next = f], head, new_list,
                          NoError, FALSE)

\* ------------------------------------------------------------ cursor
\* Iter::update without its test for the sentinel: from end it moves on, to
\* the first slot of the store
update_unguarded(p, current) ==
    IF current /= 0 THEN p[current].next
    ELSE IF size(p) > 0 THEN 1 ELSE current

\* Iter::update
update(p, current) ==
    IF current /= 0 THEN p[current].next ELSE current

\* what a traversal from begin(h) to end(h) visits: the nodes, in order.
\* The walk is cut after size(p) nodes (a longer one is in a cycle).
RECURSIVE Walk(_, _, _)
Walk(p, h, fuel) ==
    IF h = end \/ fuel = 0 THEN <<>>
    ELSE <<h>> \o Walk(p, update(p, h), fuel - 1)

Chain(p, h) == Walk(p, h, size(p))

\* the values a traversal from h yields through operator *
Traverse(p, h) == [k \in 1..Len(Chain(p, h)) |-> p[Chain(p, h)[k]].value]

\* TRUE when the traversal from h reaches end within size(p) advances
RECURSIVE Ends(_, _, _)
Ends(p, h, fuel) ==
    IF h = end THEN TRUE
    ELSE IF fuel = 0 THEN FALSE
    ELSE Ends(p, update(p, h), fuel - 1)

Finite(p, h) == Ends(p, h, size(p))

Range(s) == {s[k] : k \in 1..Len(s)}

\* ------------------------------------------------------------ the caller
Returned(o) == o.err = NoError /\ o.ret /= Hang

\* the record of a call: size0 and free0 are size() and the length of the
\* free chain when it was made; stale is the handle the caller still holds
\* of the node it released by the free just before, when this call is an
\* insertion that returned, and 0 otherwise
Call(op, head, v, lst, o) ==
    [op |-> op, head |-> head, v |-> v, lst |-> lst,
     ret |-> o.ret, err |-> o.err, oob |-> o.oob,
     size0 |-> size(pool), free0 |-> Len(Chain(pool, free_node_list)),
     stale |-> IF /\ op \in {"push_front", "push_back"}
                  /\ Returned(o)
                  /\ last.op = "free"
                  /\ last.head /= end
                  /\ Returned(last)
               THEN last.head ELSE 0]

NoRun == [lst |-> 0, kind |-> "none", vals |-> <<>>]

\* the series of pushes of one kind that built list lst from the empty list
Pushed(kind, lst, v) ==
    IF heads[lst] = end THEN [lst |-> lst, kind |-> kind, vals |-> <<v>>]
    ELSE IF run.lst = lst /\ run.kind = kind
    THEN [run EXCEPT !.vals = Append(@, v)]
    ELSE NoRun

\* the slots of the last free_list still to be reused after an insertion
Reuse == IF freed = <<>> THEN <<>> ELSE Tail(freed)

Init ==
    /\ pool = <<>>                \* list_pool(): an empty vector
    /\ free_node_list = new_list
    /\ heads = [l \in Lists |-> new_list]
    /\ it = end
    /\ last = [op |-> "list_pool", head |-> end, v |-> 0, lst |-> 0,
               ret |-> NoRet, err |-> NoError, oob |-> FALSE,
               size0 |-> 0, free0 |-> 0, stale |-> 0]
    /\ run = NoRun
    /\ freed = <<>>

\* the caller goes on when the previous call has returned.  Once it has
\* rewired a link by hand (next(h) = n) the lists are its own work, no more
\* the pool's: the model follows it no further.
Running == last.ret /= Hang /\ last.op /= "set_next"

\* a call on the pool through one of the caller's heads (lst in Lists, the
\* head is replaced by the handle returned) or through any handle (lst = 0);
\* r and fr are the history the call leaves in run and freed
Apply(op, head, v, lst, o, r, fr) ==
    /\ Running
    /\ size(o.pool) <= MaxNodes
    /\ pool' = o.pool
    /\ free_node_list' = o.fnl
    /\ heads' = IF lst \in Lists /\ Returned(o)
                THEN [heads EXCEPT ![lst] = o.ret] ELSE heads
    /\ it' = end                        \* a cursor does not outlive a call
    /\ last' = Call(op, head, v, lst, o)
    /\ run' = IF Returned(o) THEN r ELSE NoRun
    /\ freed' = IF Returned(o) THEN fr ELSE <<>>

\* ---- the caller keeps to its own heads
\* new_list(): the caller gets the handle of an empty list
NewList ==
    Apply("new_list", end, 0, 0,
          Outcome(pool, free_node_list, new_list, NoError, FALSE),
          NoRun, <<>>)

PushFront(l, v) ==
    Apply("push_front", heads[l], v, l,
          fpush_front(pool, free_node_list, v, heads[l]), NoRun, <<>>)

PushBack(l, v) ==
    \E o \in fpush_back(pool, free_node_list, v, heads[l]) :
        Apply("push_back", heads[l], v, l, o, NoRun, <<>>)

Free(l) ==
    Apply("free", heads[l], 0, l, free(pool, free_node_list, heads[l]),
          NoRun, <<>>)

FreeList(l) ==
    Apply("free_list", heads[l], 0, l,
          free_list(pool, free_node_list, heads[l]), NoRun, <<>>)

\* ---- the same calls, with the history of the pushes and of the released
\* slots kept in run and freed
PushFrontH(l, v) ==
    Apply("push_front", heads[l], v, l,
          fpush_front(pool, free_node_list, v, heads[l]),
          Pushed("front", l, v), Reuse)

PushBackH(l, v) ==
    \E o \in fpush_back(pool, free_node_list, v, heads[l]) :
        Apply("push_back", heads[l], v, l, o, Pushed("back", l, v), Reuse)

FreeH(l) ==
    Apply("free", heads[l], 0, l, free(pool, free_node_list, heads[l]),
          NoRun, IF heads[l] = end THEN freed ELSE <<>>)

FreeListH(l) ==
    Apply("free_list", heads[l], 0, l,
          free_list(pool, free_node_list, heads[l]),
          NoRun, IF heads[l] = end THEN freed ELSE Chain(pool, heads[l]))

\* ---- calls with a handle beyond size()
PushFrontBeyond(h, v) ==
    /\ h > size(pool)
    /\ Apply("push_front", h, v, 0,
             fpush_front(pool, free_node_list, v, h), NoRun, <<>>)

FreeBeyond(h) ==
    /\ h > size(pool)
    /\ Apply("free", h, 0, 0, free(pool, free_node_list, h), NoRun, <<>>)

FreeListBeyond(h) ==
    /\ h > size(pool)
    /\ Apply("free_list", h, 0, 0, free_list(pool, free_node_list, h),
             NoRun, <<>>)

\* ---- accessors, with any handle
Value(h) ==
    Apply("value", h, 0, 0, value(pool, free_node_list, h), NoRun, <<>>)

NextOf(h) ==
    Apply("next", h, 0, 0, next(pool, free_node_list, h), NoRun, <<>>)

SetValue(h, v) ==
    Apply("set_value", h, v, 0, set_value(pool, free_node_list, h, v),
          NoRun, <<>>)

\* next(h) = n, n the sentinel or one of the caller's heads
SetNext(h, n) ==
    /\ n \in {end} \cup {heads[l] : l \in Lists}
    /\ Apply("set_next", h, n, 0, set_next(pool, free_node_list, h, n),
             NoRun, <<>>)

\* ---- the cursor
\* the calls made on a cursor
CursorOps == {"begin", "advance", "deref", "assign", "equal"}

\* Iter::operator ==, between cursors of this one pool
equal(current, rhs) == current = rhs

\* a write through the cursor that replaces the whole node, link included
assign_node(p, current, v) == [p EXCEPT ![current] = Node(v, end)]

\* *it = v through a mutable cursor: Iter::value yields a Value&
assign(p, current, v) == [p EXCEPT ![current].value = v]

Begin(h) ==
    /\ Running
    /\ h \in 0..size(pool)
    /\ it' = h
    /\ last' = Call("begin", h, 0, 0,
                    Outcome(pool, free_node_list, h, NoError, FALSE))
    /\ UNCHANGED <<pool, free_node_list, heads, run, freed>>

\* operator ++
Advance ==
    /\ Running
    /\ last.op \in CursorOps
    /\ it' = update(pool, it)
    /\ last' = Call("advance", it, 0, 0,
                    Outcome(pool, free_node_list, update(pool, it),
                            NoError, FALSE))
    /\ UNCHANGED <<pool, free_node_list, heads, run, freed>>

\* operator *, on a cursor that is not at end
Deref ==
    /\ Running
    /\ last.op \in CursorOps
    /\ it /= end
    /\ last' = Call("deref", it, 0, 0,
                    Outcome(pool, free_node_list, pool[it].value,
                            NoError, FALSE))
    /\ UNCHANGED <<pool, free_node_list, heads, it, run, freed>>

\* begin(h), the positions the cursor takes from here on being recorded
BeginRun(h) ==
    /\ Running
    /\ h \in 0..size(pool)
    /\ it' = h
    /\ last' = Call("begin", h, 0, 0,
                    Outcome(pool, free_node_list, h, NoError, FALSE))
    /\ run' = [lst |-> h, kind |-> "cursor", vals |-> <<>>]
    /\ UNCHANGED <<pool, free_node_list, heads, freed>>

\* operator ++, at most size() + 1 times from one begin
AdvanceRun ==
    /\ Running
    /\ last.op \in CursorOps
    /\ run.kind = "cursor"
    /\ Len(run.vals) <= size(pool)
    /\ it' = update(pool, it)
    /\ last' = Call("advance", it, 0, 0,
                    Outcome(pool, free_node_list, update(pool, it),
                            NoError, FALSE))
    /\ run' = [run EXCEPT !.vals = Append(@, update(pool, it))]
    /\ UNCHANGED <<pool, free_node_list, heads, freed>>

\* *it = v on a mutable cursor that is not at end
Assign(v) ==
    /\ Running
    /\ last.op \in CursorOps
    /\ it /= end
    /\ pool' = assign(pool, it, v)
    /\ last' = Call("assign", it, v, 0,
                    Outcome(pool, free_node_list, v, NoError, FALSE))
    /\ UNCHANGED <<free_node_list, heads, it, run, freed>>

\* it == end(h): 1 when equal, 0 when not
Equal ==
    /\ Running
    /\ last.op \in CursorOps
    /\ last' = Call("equal", it, 0, 0,
                    Outcome(pool, free_node_list,
                            IF equal(it, end) THEN 1 ELSE 0, NoError, FALSE))
    /\ UNCHANGED <<pool, free_node_list, heads, it, run, freed>>

\* ------------------------------------------------------------ specifications
\* the list operations, called as documented or with a handle beyond size()
Next ==
    \/ NewList
    \/ \E l \in Lists, v \in Values : PushFront(l, v)
    \/ \E l \in Lists, v \in Values : PushBack(l, v)
    \/ \E l \in Lists : Free(l)
    \/ \E l \in Lists : FreeList(l)
    \/ \E h \in Handles, v \in Values : PushFrontBeyond(h, v)
    \/ \E h \in Handles : FreeBeyond(h)
    \/ \E h \in Handles : FreeListBeyond(h)

Spec == Init /\ [][Next]_vars

\* the list operations with their history
NextHistory ==
    \/ \E l \in Lists, v \in Values : PushFrontH(l, v)
    \/ \E l \in Lists, v \in Values : PushBackH(l, v)
    \/ \E l \in Lists : FreeH(l)
    \/ \E l \in Lists : FreeListH(l)

SpecHistory == Init /\ [][NextHistory]_vars

\* the list operations and the accessors
NextAccess ==
    \/ \E l \in Lists, v \in Values : PushFront(l, v)
    \/ \E l \in Lists, v \in Values : PushBack(l, v)
    \/ \E l \in Lists : Free(l)
    \/ \E l \in Lists : FreeList(l)
    \/ \E h \in Handles : Value(h)
    \/ \E h \in Handles : NextOf(h)
    \/ \E h \in Handles, v \in Values : SetValue(h, v)
    \/ \E h \in Handles, n \in Handles : SetNext(h, n)

SpecAccess == Init /\ [][NextAccess]_vars

\* the list operations on the caller's heads, the accessors and the cursor
NextAll ==
    \/ \E l \in Lists, v \in Values : PushFront(l, v)
    \/ \E l \in Lists, v \in Values : PushBack(l, v)
    \/ \E l \in Lists : Free(l)
    \/ \E l \in Lists : FreeList(l)
    \/ \E h \in Handles : Value(h)
    \/ \E h \in Handles : NextOf(h)
    \/ \E h \in Handles, v \in Values : SetValue(h, v)
    \/ \E h \in Handles, n \in Handles : SetNext(h, n)
    \/ \E h \in Handles : Begin(h)
    \/ Advance
    \/ Deref

SpecAll == Init /\ [][NextAll]_vars

\* the list operations on the caller's heads and a cursor over the pool
NextCursor ==
    \/ \E l \in Lists, v \in Values : PushFront(l, v)
    \/ \E l \in Lists, v \in Values : PushBack(l, v)
    \/ \E l \in Lists : Free(l)
    \/ \E l \in Lists : FreeList(l)
    \/ \E h \in Handles : BeginRun(h)
    \/ AdvanceRun
    \/ Deref
    \/ \E v \in Values : Assign(v)
    \/ Equal

SpecCursor == Init /\ [][NextCursor]_vars

\* ---- calls with any handle: stale, freed, inside a list, beyond size().
\* The caller's heads stay as they are.
PushFrontAny(h, v) ==
    Apply("push_front", h, v, 0, fpush_front(pool, free_node_list, v, h),
          NoRun, <<>>)

PushBackAny(h, v) ==
    \E o \in fpush_back(pool, free_node_list, v, h) :
        Apply("push_back", h, v, 0, o, NoRun, <<>>)

FreeAny(h) ==
    Apply("free", h, 0, 0, free(pool, free_node_list, h), NoRun, <<>>)

FreeListAny(h) ==
    Apply("free_list", h, 0, 0, free_list(pool, free_node_list, h),
          NoRun, <<>>)

\* the list operations, called with any handle
NextMisuse ==
    \/ \E h \in Handles, v \in Values : PushFrontAny(h, v)
    \/ \E h \in Handles, v \in Values : PushBackAny(h, v)
    \/ \E h \in Handles : FreeAny(h)
    \/ \E h \in Handles : FreeListAny(h)

SpecMisuse == Init /\ [][NextMisuse]_vars

\* ---- calls with any handle of 0..size(): stale, freed, inside a list, held
\* twice.  The caller's heads stay as they are.
PushFrontStale(h, v) == h <= size(pool) /\ PushFrontAny(h, v)

PushBackStale(h, v) == h <= size(pool) /\ PushBackAny(h, v)

FreeStale(h) == h <= size(pool) /\ FreeAny(h)

FreeListStale(h) == h <= size(pool) /\ FreeListAny(h)

\* the value inserted has no part in what these calls do to the handles:
\* they insert one and the same
AValue == CHOOSE v \in Values : TRUE

NextStale ==
    \/ \E h \in Handles : PushFrontStale(h, AValue)
    \/ \E h \in Handles : PushBackStale(h, AValue)
    \/ \E h \in Handles : FreeStale(h)
    \/ \E h \in Handles : FreeListStale(h)

SpecStale == Init /\ [][NextStale]_vars

\* ------------------------------------------------------------ properties
Insertions == {"push_front", "push_back"}
Accessors == {"value", "next", "set_value", "set_next"}

\* the nodes of the caller's list l, in list order, and of the free chain
Live(l) == Chain(pool, heads[l])
FreeChain == Chain(pool, free_node_list)

\* C1 (partition). After any sequence of push_front, push_back, free and
\* free_list calls on the caller's own heads, every index in [1, size()] is
\* reachable from exactly one list head and is not in the free chain, or is
\* in the free chain and reachable from no list head.
C1_Partition ==
    \A k \in 1..size(pool) :
        LET owners == {l \in Lists : k \in Range(Live(l))}
        IN  \/ Cardinality(owners) = 1 /\ k \notin Range(FreeChain)
            \/ owners = {} /\ k \in Range(FreeChain)

\* two lists and the free chain share a full store
C1_Witness ==
    /\ size(pool) = MaxNodes
    /\ \A l \in Lists : heads[l] /= end
    /\ free_node_list /= end
    /\ last.op = "free"

C3_PushBackRejects ==
    (last.op = "push_back" /\ last.head > last.size0) =>
        /\ last.err = InvalidHandle
        /\ ~last.oob
        /\ size(pool) = last.size0

\* C4 (rejected heads). push_front, free and free_list called with a head
\* greater than size() raise InvalidHandle and leave size(), free_node_list
\* and every node as they were; called with the sentinel they do not raise.
C4_RejectedHead ==
    [][last'.op \in {"push_front", "free", "free_list"} =>
          /\ last'.head > size(pool) =>
                /\ last'.err = InvalidHandle
                /\ pool' = pool
                /\ free_node_list' = free_node_list
          /\ last'.head = end => last'.err = NoError]_vars

\* a free_list beyond size() on a store with live and free nodes
C4_Witness ==
    /\ last.op = "free_list"
    /\ last.head > size(pool)
    /\ last.err = InvalidHandle
    /\ free_node_list /= end
    /\ \E l \in Lists : heads[l] /= end

\* C5 (accessors). value(h) and next(h), read or written, raise
\* InvalidHandle when h is the sentinel or h > size(), and succeed for every
\* h in [1, size()].
C5_Accessors ==
    last.op \in Accessors =>
        /\ (last.head = end \/ last.head > size(pool))
               => last.err = InvalidHandle
        /\ last.head \in 1..size(pool) => last.err = NoError

\* a write through value(h) on the last node of a full store
C5_Witness ==
    /\ last.op = "set_value"
    /\ last.head = MaxNodes
    /\ last.err = NoError
    /\ pool[last.head].value = last.v

\* C6 (push_front). push_front(v, head) with head in [0, size()] returns a
\* handle h of the store with value(h) = v and next(h) = head, whether it
\* grew the store or recycled a free node, and changes no other node of the
\* caller's lists.
C6_PushFront ==
    [][(last'.op = "push_front" /\ last'.head <= size(pool)) =>
          LET h == last'.ret
          IN  /\ last'.err = NoError
              /\ h \in 1..size(pool')
              /\ pool'[h].value = last'.v
              /\ pool'[h].next = last'.head
              /\ (size(pool) = 0 => pool'[h].next = end)
              /\ \A l \in Lists : \A k \in Range(Live(l)) :
                    k /= h => pool'[k] = pool[k]]_vars

\* a push_front onto a non-empty list that recycled a free node
C6_Witness ==
    /\ last.op = "push_front"
    /\ last.err = NoError
    /\ last.head /= end
    /\ last.free0 > 0
    /\ last.ret <= last.size0
    /\ pool[last.ret] = Node(last.v, last.head)

\* C7 (order law). A list built from the empty list by successive push_back
\* calls of v1, ..., vn, in any state of the pool, is traversed as
\* v1, ..., vn.
C7_OrderLaw ==
    run.kind = "back" => Traverse(pool, heads[run.lst]) = run.vals

\* three push_back calls, the last of them on a recycled node
C7_Witness ==
    /\ run.kind = "back"
    /\ Len(run.vals) = 3
    /\ last.free0 > 0
    /\ Traverse(pool, heads[run.lst]) = run.vals

\* C8 (reversal law). A list built from the empty list by push_front of v1
\* and then of v2, in any state of the pool, is traversed as v2, v1.
C8_ReversalLaw ==
    (run.kind = "front" /\ Len(run.vals) = 2) =>
        Traverse(pool, heads[run.lst]) = <<run.vals[2], run.vals[1]>>

\* two push_front calls of different values while the other list is in use
C8_Witness ==
    /\ run.kind = "front"
    /\ Len(run.vals) = 2
    /\ run.vals[1] /= run.vals[2]
    /\ \A l \in Lists : heads[l] /= end
    /\ Traverse(pool, heads[run.lst]) = <<run.vals[2], run.vals[1]>>

\* C9 (free). free(head) on a non-empty list returns what next(head) was
\* (the sentinel for a one-node list), makes head the first node of the free
\* chain with the previous free chain behind it, and leaves the other nodes
\* of the list, their order and their values as they were.
C9_Free ==
    [][(last'.op = "free" /\ last'.head \in 1..size(pool)) =>
          LET h == last'.head
          IN  /\ last'.err = NoError
              /\ last'.ret = pool[h].next
              /\ (Len(Chain(pool, h)) = 1 => is_empty(last'.ret))
              /\ Chain(pool', free_node_list') = <<h>> \o FreeChain
              /\ Chain(pool', last'.ret) = Tail(Chain(pool, h))
              /\ Traverse(pool', last'.ret) = Tail(Traverse(pool, h))]_vars

\* the head of a longer list freed onto a non-empty free chain
C9_Witness ==
    /\ last.op = "free"
    /\ last.head /= end
    /\ last.ret /= end
    /\ last.free0 > 0
    /\ free_node_list = last.head

\* the node the last insertion put in the list
Inserted ==
    IF last.op = "push_front" \/ last.head = end THEN last.ret
    ELSE get_tail(pool, last.ret)

\* C10 (free_list). free_list(head) on a non-empty list returns the
\* sentinel and makes the free chain the nodes of the list, in list order,
\* followed by the previous free chain; the insertions that follow do not
\* grow size() and reuse the released slots in that order, slot head first.
C10_FreeList ==
    [][/\ (last'.op = "free_list" /\ last'.head \in 1..size(pool)) =>
             /\ last'.err = NoError
             /\ last'.ret = end
             /\ Chain(pool', free_node_list') =
                    Chain(pool, last'.head) \o FreeChain
             /\ freed' = Chain(pool, last'.head)
             /\ Head(freed') = last'.head
       /\ (last'.op \in Insertions /\ freed /= <<>>) =>
             /\ last'.err = NoError
             /\ size(pool') = size(pool)
             /\ Inserted' = Head(freed)]_vars

\* the second of the insertions that follow free_list of a three-node list
C10_Witness ==
    /\ last.op \in Insertions
    /\ Len(freed) = 1
    /\ last.free0 = 2
    /\ size(pool) = MaxNodes

\* C11 (empty list). free(0) and free_list(0) return the sentinel, raise
\* nothing and leave size(), free_node_list and every node as they were.
C11_FreeEmpty ==
    [][(last'.op \in {"free", "free_list"} /\ last'.head = end) =>
          /\ last'.err = NoError
          /\ last'.ret = end
          /\ pool' = pool
          /\ free_node_list' = free_node_list]_vars

\* free_list of an empty list while the other list and the free chain are not
C11_Witness ==
    /\ last.op = "free_list"
    /\ last.head = end
    /\ last.ret = end
    /\ free_node_list /= end
    /\ \E l \in Lists : heads[l] /= end

\* C12 (push_back). On a non-empty list push_back(v, head) returns head and
\* links the new or recycled node, holding v and next = end(), after the old
\* tail, every earlier node keeping its place and value; on the empty list it
\* returns and does to the pool exactly what push_front(v, 0) does.
C12_PushBack ==
    [][(last'.op = "push_back" /\ last'.lst \in Lists) =>
          IF last'.head = end
          THEN LET o == fpush_front(pool, free_node_list, last'.v, end)
               IN  /\ pool' = o.pool
                   /\ free_node_list' = o.fnl
                   /\ last'.ret = o.ret
                   /\ last'.err = o.err
          ELSE LET c == Chain(pool, last'.head)
                   n == IF free_node_list = end THEN size(pool) + 1
                        ELSE free_node_list
               IN  /\ last'.err = NoError
                   /\ last'.ret = last'.head
                   /\ Chain(pool', last'.head) = Append(c, n)
                   /\ pool'[n] = Node(last'.v, end)
                   /\ \A k \in Range(c) : pool'[k].value = pool[k].value]_vars

\* push_back recycled a slot as the tail of a list of two, a free slot left
C12_Witness ==
    /\ last.op = "push_back"
    /\ last.head /= end
    /\ last.ret = last.head
    /\ last.size0 = size(pool)
    /\ Len(Chain(pool, last.head)) = 2
    /\ free_node_list /= end

\* C13 (cursor). An advance at end() stays at end(); an advance at a node h
\* moves to that node's next.  So begin(h) advanced k times over the k nodes
\* of a list is equal to end(h), and is still after any further advance.
C13_Cursor ==
    run.kind = "cursor" =>
        LET c == Chain(pool, run.lst)
            at(j) == IF j = 0 THEN run.lst ELSE run.vals[j]
        IN  /\ it = at(Len(run.vals))
            /\ \A j \in 1..Len(run.vals) :
                  /\ at(j - 1) = end => at(j) = end
                  /\ at(j - 1) /= end => at(j) = pool[at(j - 1)].next
                  /\ j >= Len(c) => equal(at(j), end)
                  /\ j < Len(c) => at(j) = c[j + 1]

\* a cursor advanced once more after it came to the end of a list of two
C13_Witness ==
    /\ run.kind = "cursor"
    /\ last.op = "advance"
    /\ \E l \in Lists : heads[l] = run.lst
    /\ Len(Chain(pool, run.lst)) = 2
    /\ Len(run.vals) = 3
    /\ last.head = end
    /\ it = end

\* C14 (sentinel). new_list() returns 0, which is_empty takes for the empty
\* list, and changes nothing in the pool; the handle push_front returns and
\* the slot push_back links as the new tail are in 1..size(), never empty.
C14_Sentinel ==
    [][/\ last'.op = "new_list" =>
             /\ last'.ret = 0
             /\ is_empty(last'.ret)
             /\ pool' = pool
             /\ free_node_list' = free_node_list
       /\ (last'.op \in Insertions /\ Returned(last')) =>
             /\ Inserted' \in 1..size(pool')
             /\ ~is_empty(Inserted')
             /\ last'.op = "push_front" => last'.ret \in 1..size(pool')]_vars

\* push_back has grown a full store by linking its last slot as a tail
C14_Witness ==
    /\ last.op = "push_back"
    /\ last.head /= end
    /\ Returned(last)
    /\ Inserted = size(pool)
    /\ size(pool) = MaxNodes
    /\ last.size0 < size(pool)

\* C15 (value retention). free and free_list change the value of no node.  An
\* insertion changes the value of no slot but the one it recycles, the head
\* of the free chain: so a freed slot holds the value it was freed with, call
\* after call, until the insertion that takes that very slot.
C15_Retention ==
    [][/\ last'.op \in {"free", "free_list"} =>
             /\ size(pool') = size(pool)
             /\ \A k \in 1..size(pool) : pool'[k].value = pool[k].value
       /\ last'.op \in Insertions =>
             \A k \in 1..size(pool) :
                 pool'[k].value /= pool[k].value =>
                     /\ k = free_node_list
                     /\ Returned(last')
                     /\ Inserted' = k
                     /\ pool'[k].value = last'.v]_vars

\* a free with two slots then in the free chain, holding different values
C15_Witness ==
    /\ last.op = "free"
    /\ last.head /= end
    /\ Returned(last)
    /\ Len(FreeChain) >= 2
    /\ pool[FreeChain[1]].value /= pool[FreeChain[2]].value

\* C16 (termination). While the caller passes only the sentinel or the head
\* of one of its lists, the chain from every such head and the chain from
\* free_node_list come to the sentinel within size() advances: a cursor from
\* a head reaches end, and the tail walk of push_back and free_list returns,
\* with a node of the store.
C16_Termination ==
    /\ \A l \in Lists : Finite(pool, heads[l])
    /\ Finite(pool, free_node_list)
    /\ last.ret /= Hang
    /\ \A l \in Lists :
          ~is_empty(heads[l]) =>
              /\ get_tail(pool, heads[l]) \in 1..size(pool)
              /\ pool[get_tail(pool, heads[l])].next = end

\* free_list has walked a list of all the store's nodes to its tail
C16_Witness ==
    /\ last.op = "free_list"
    /\ last.head /= end
    /\ Returned(last)
    /\ last.free0 = 0
    /\ Len(FreeChain) = MaxNodes

\* C17 (recycling). The insertion that comes right after free(h), h the head
\* of a non-empty list, takes slot h and does not grow the store: push_front
\* returns h, push_back on a non-empty list links h as the new tail.  The
\* handle h the caller kept passes the bounds checks and reads the new value.
C17_Recycling ==
    last.stale /= 0 =>
        /\ size(pool) = last.size0
        /\ Inserted = last.stale
        /\ last.op = "push_front" => last.ret = last.stale
        /\ (last.op = "push_back" /\ last.head /= end) =>
               /\ last.ret = last.head
               /\ get_tail(pool, last.head) = last.stale
        /\ ~check_index1(pool, last.stale)
        /\ ~check_index2(pool, last.stale)
        /\ value(pool, free_node_list, last.stale).err = NoError
        /\ value(pool, free_node_list, last.stale).ret = last.v

\* push_back on a non-empty list right after a free, other slots still free
C17_Witness ==
    /\ last.stale /= 0
    /\ last.op = "push_back"
    /\ last.head /= end
    /\ last.head /= last.stale
    /\ free_node_list /= end

\* C18 (cursor frame). To make a cursor, advance it, compare it with end and
\* read through it changes nothing in the pool; a write through the mutable
\* cursor changes one value: size(), free_node_list and every node's next are
\* after any of these what they were before.
C18_CursorFrame ==
    [][last'.op \in CursorOps =>
          /\ size(pool') = size(pool)
          /\ free_node_list' = free_node_list
          /\ \A k \in 1..size(pool) : pool'[k].next = pool[k].next
          /\ last'.op /= "assign" => pool' = pool]_vars

\* a write through a cursor advanced to a node that has a successor, while
\* the free chain is not empty
C18_Witness ==
    /\ last.op = "assign"
    /\ run.kind = "cursor"
    /\ Len(run.vals) >= 1
    /\ it /= end
    /\ pool[it].next /= end
    /\ pool[it].value = last.v
    /\ free_node_list /= end

\* C19 (handle range). Whatever handles of 0..size() the caller passes to
\* push_front, push_back, free and free_list, in whatever order, after every
\* call that returns or throws free_node_list and the next of every node are
\* in 0..size(), and no call has read or written outside the store.
C19_HandleRange ==
    /\ free_node_list \in 0..size(pool)
    /\ \A k \in 1..size(pool) : pool[k].next \in 0..size(pool)
    /\ last.oob = FALSE
    /\ \A h \in 1..size(pool) :
          \A t \in get_tail_any(pool, h) :
              t.oob = FALSE /\ t.tail \in {Hang} \cup 1..size(pool)

\* push_back through a handle that is not the head of its list has grown the
\* store to its bound, and a node links to itself
C19_Witness ==
    /\ last.op = "push_back"
    /\ Returned(last)
    /\ last.size0 < size(pool)
    /\ size(pool) = MaxNodes
    /\ \E k \in 1..size(pool) : pool[k].next = k

\* C20 (double free). A second free(h) right after free(h), h in 1..size(),
\* raises nothing and leaves next(h) = h and free_node_list = h.  From there
\* push_front(v, head) returns h and free_node_list is h still: slot h heads
\* a live list and the free chain at once.
C20_DoubleFree ==
    [][/\ (/\ last.op = "free" /\ Returned(last)
           /\ last.head \in 1..size(pool)
           /\ last'.op = "free" /\ last'.head = last.head) =>
             /\ last'.err = NoError
             /\ pool'[last.head].next = last.head
             /\ free_node_list' = last.head
             /\ size(pool') = size(pool)
       /\ (/\ free_node_list /= end
           /\ pool[free_node_list].next = free_node_list
           /\ last'.op = "push_front"
           /\ last'.head \in 0..size(pool)) =>
             /\ last'.err = NoError
             /\ last'.ret = free_node_list
             /\ free_node_list' = free_node_list
             /\ pool'[free_node_list] = Node(last'.v, last'.head)]_vars

\* push_front right after the second free(h) has returned h, and the free
\* chain still starts at h
C20_Witness ==
    /\ last.op = "push_front"
    /\ Returned(last)
    /\ last.stale /= 0
    /\ last.ret = last.stale
    /\ free_node_list = last.stale
    /\ last.head /= last.stale

====
